---------------------------- MODULE Spec2Model ----------------------------
(***************************************************************************)
(* Filey (src/filey.py): a file-browser list widget with a navigation      *)
(* history, a background directory scan per navigation, an optional        *)
(* two-phase reload animation, file operations and persisted settings.     *)
(*                                                                         *)
(* Names are sequences of character codes, so that str.lower, string       *)
(* comparison, os.path.splitext and the " - Copy<N>" suffix are computed   *)
(* on characters.  A path is the sequence of the names below the home      *)
(* directory: os.path.join is Append, basename the last name, dirname the  *)
(* path without it.                                                        *)
(***************************************************************************)
EXTENDS Integers, Sequences, FiniteSets, TLC

(***************************************************************************)
(* Characters and strings                                                  *)
(***************************************************************************)
\* " ", ".", " - Copy" and "B" as strings
sSpace == <<32>>
sDot == <<46>>
sCopySuffix == <<32, 45, 32, 67, 111, 112, 121>>
sB == <<66>>
sYB == <<32, 89, 66>>

\* one character of str.lower(): 'A'..'Z' become 'a'..'z'
LowerChar(c) == IF c >= 65 /\ c <= 90 THEN c + 32 ELSE c

\* str.lower
Lower(s) == [i \in 1..Len(s) |-> LowerChar(s[i])]

\* s < t for Python strings: lexicographic on code points, a proper prefix is smaller
RECURSIVE StrLess(_, _)
StrLess(s, t) ==
    IF t = <<>> THEN FALSE
    ELSE IF s = <<>> THEN TRUE
    ELSE IF s[1] # t[1] THEN s[1] < t[1]
    ELSE StrLess(Tail(s), Tail(t))

\* the `in` operator on strings: sub occurs in s
Contains(s, sub) ==
    \E i \in 0..(Len(s) - Len(sub)) : SubSeq(s, i + 1, i + Len(sub)) = sub

\* str.strip(): white space removed at both ends
IsSpace(c) == c = 32 \/ (c >= 9 /\ c <= 13)

RECURSIVE LStrip(_)
LStrip(s) == IF s # <<>> /\ IsSpace(s[1]) THEN LStrip(Tail(s)) ELSE s

RECURSIVE RStrip(_)
RStrip(s) == IF s # <<>> /\ IsSpace(s[Len(s)]) THEN RStrip(SubSeq(s, 1, Len(s) - 1)) ELSE s

Strip(s) == RStrip(LStrip(s))

\* os.path.splitext on a name: the extension starts at the last dot, unless only
\* dots come before it
Splitext(name) ==
    LET dots == {i \in 1..Len(name) : name[i] = 46}
        dotIndex == IF dots = {} THEN 0 ELSE CHOOSE i \in dots : \A j \in dots : j <= i
    IN  IF dotIndex > 0 /\ \E j \in 1..(dotIndex - 1) : name[j] # 46
        THEN [base |-> SubSeq(name, 1, dotIndex - 1), ext |-> SubSeq(name, dotIndex, Len(name))]
        ELSE [base |-> name, ext |-> <<>>]

\* str(n) for n >= 0
RECURSIVE Digits(_)
Digits(n) == IF n < 10 THEN <<48 + n>> ELSE Digits(n \div 10) \o <<48 + (n % 10)>>

(***************************************************************************)
(* sizeof_fmt                                                              *)
(***************************************************************************)
\* the unit prefixes '', 'K', 'M', 'G', 'T', 'P', 'E', 'Z'
Units == << <<>>, <<75>>, <<77>>, <<71>>, <<84>>, <<80>>, <<69>>, <<90>> >>

RECURSIVE Pow1024(_)
Pow1024(k) == IF k = 0 THEN 1 ELSE 1024 * Pow1024(k - 1)

\* num / 1024^k in tenths, rounded as the format .1f rounds the exact quotient
\* (the quotient by a power of two is exact, a tie goes to the even digit)
Tenths(num, k) ==
    LET d == Pow1024(k)
        q == (num * 10) \div d
        r == (num * 10) % d
    IN  IF 2 * r > d THEN q + 1
        ELSE IF 2 * r < d THEN q
        ELSE IF q % 2 = 0 THEN q ELSE q + 1

\* f"{num:3.1f} {unit}B" after k divisions by 1024
FmtUnit(num, k) ==
    LET t == Tenths(num, k)
    IN  Digits(t \div 10) \o sDot \o Digits(t % 10) \o sSpace \o Units[k + 1] \o sB

\* the loop over the units: the first unit whose value is below 1024
RECURSIVE SizeofLoop(_, _)
SizeofLoop(num, k) ==
    IF k = Len(Units)
    THEN Digits(Tenths(num, k) \div 10) \o sDot \o Digits(Tenths(num, k) % 10) \o sYB
    ELSE IF num < 1024 * Pow1024(k) THEN FmtUnit(num, k)
    ELSE SizeofLoop(num, k + 1)

sizeof_fmt(num) == SizeofLoop(num, 0)

(***************************************************************************)
(* The filesystem                                                          *)
(*                                                                         *)
(* A filesystem is a function from the paths that exist to their nodes.    *)
(* A node has a kind ("dir", "file" or "other": neither a directory nor a   *)
(* regular file), a flag ok (FALSE: os.listdir of the directory, resp.     *)
(* reading the file, raises), the size of a file, and what os.stat does on *)
(* it: "ok", "never" (it raises, as under a directory that may be listed   *)
(* and not searched) or "late" (it succeeds while Worker.run classifies    *)
(* the names and raises afterwards: the file was removed meanwhile).       *)
(* os.path.isdir and os.path.isfile return False when os.stat raises.      *)
(***************************************************************************)
Home == <<>>

Dir == [kind |-> "dir", ok |-> TRUE, size |-> 0, stat |-> "ok"]
NoListDir == [kind |-> "dir", ok |-> FALSE, size |-> 0, stat |-> "ok"]
File(n) == [kind |-> "file", ok |-> TRUE, size |-> n, stat |-> "ok"]
NoStatFile == [kind |-> "file", ok |-> FALSE, size |-> 0, stat |-> "never"]
LateStatFile == [kind |-> "file", ok |-> TRUE, size |-> 0, stat |-> "late"]
Other == [kind |-> "other", ok |-> TRUE, size |-> 0, stat |-> "ok"]

Exists(f, p) == p \in DOMAIN f
IsDir(f, p) == Exists(f, p) /\ f[p].stat # "never" /\ f[p].kind = "dir"
IsFile(f, p) == Exists(f, p) /\ f[p].stat # "never" /\ f[p].kind = "file"

\* os.path.getsize(p) returns: it raises when os.stat does
GetsizeOk(f, p) == f[p].stat = "ok"

Join(p, name) == Append(p, name)
Basename(p) == IF p = <<>> THEN <<>> ELSE p[Len(p)]
Dirname(p) == IF p = <<>> THEN <<>> ELSE SubSeq(p, 1, Len(p) - 1)

\* p is q or lies below q
IsPrefix(q, p) == Len(q) <= Len(p) /\ SubSeq(p, 1, Len(q)) = q

\* the names of the children of directory p
Children(f, p) == {q[Len(q)] : q \in {r \in DOMAIN f : Len(r) = Len(p) + 1 /\ IsPrefix(p, r)}}

\* all orders of a finite set
RECURSIVE Perms(_)
Perms(S) ==
    IF S = {} THEN {<<>>}
    ELSE UNION {{<<x>> \o t : t \in Perms(S \ {x})} : x \in S}

\* os.listdir(p): it raises, or returns the names of the children in any order
ListDir(f, p) ==
    IF IsDir(f, p) /\ f[p].ok
    THEN {[raised |-> FALSE, names |-> l] : l \in Perms(Children(f, p))}
    ELSE {[raised |-> TRUE, names |-> <<>>]}

(***************************************************************************)
(* Worker.run                                                              *)
(***************************************************************************)
\* mutant of InsertByLower: the names are compared as they are, without str.lower
RECURSIVE InsertByName(_, _)
InsertByName(sorted, x) ==
    IF sorted = <<>> THEN <<x>>
    ELSE IF StrLess(x, sorted[1]) THEN <<x>> \o sorted
    ELSE <<sorted[1]>> \o InsertByName(Tail(sorted), x)

\* list.sort(key=str.lower) is stable: x goes behind every element whose key is
\* not greater than its own
RECURSIVE InsertByLower(_, _)
InsertByLower(sorted, x) ==
    IF sorted = <<>> THEN <<x>>
    ELSE IF StrLess(Lower(x), Lower(sorted[1])) THEN <<x>> \o sorted
    ELSE <<sorted[1]>> \o InsertByLower(Tail(sorted), x)

RECURSIVE SortByLower(_)
SortByLower(s) ==
    IF s = <<>> THEN <<>>
    ELSE InsertByLower(SortByLower(SubSeq(s, 1, Len(s) - 1)), s[Len(s)])

FolderEntry(p, name) ==
    [name |-> name, full_path |-> Join(p, name), is_folder |-> TRUE, size_text |-> <<>>]

\* os.path.getsize raising leaves size_text empty
FileEntry(f, p, name) ==
    [name |-> name, full_path |-> Join(p, name), is_folder |-> FALSE,
     size_text |-> IF GetsizeOk(f, Join(p, name)) THEN sizeof_fmt(f[Join(p, name)].size)
                   ELSE <<>>]

\* Worker.run on the listing `entries` of path p: the list emitted by finished
Run(f, p, entries) ==
    IF entries.raised THEN <<>>
    ELSE LET folders == SortByLower(SelectSeq(entries.names, LAMBDA e : IsDir(f, Join(p, e))))
             files == SortByLower(SelectSeq(entries.names,
                          LAMBDA e : ~IsDir(f, Join(p, e)) /\ IsFile(f, Join(p, e))))
         IN  [i \in 1..Len(folders) |-> FolderEntry(p, folders[i])]
                 \o [i \in 1..Len(files) |-> FileEntry(f, p, files[i])]

\* what a scan of p can emit: the list, and whether the listing raised
ScanResults(f, p) == {[entries |-> Run(f, p, l), failed |-> l.raised] : l \in ListDir(f, p)}

(***************************************************************************)
(* The OS calls of the file operations: whether the call succeeds, and the *)
(* filesystem it leaves                                                    *)
(***************************************************************************)
Subtree(f, p) == {q \in DOMAIN f : IsPrefix(p, q)}
Restrict(f, S) == [q \in S |-> f[q]]

\* the path q of the tree at src, seen in the tree at dst
Rebase(q, src, dst) == dst \o SubSeq(q, Len(src) + 1, Len(q))

\* os.mkdir, open(path, 'w') of a new file
MkdirOk(f, p) == ~Exists(f, p) /\ IsDir(f, Dirname(p))
CreateOk(f, p) == IsDir(f, Dirname(p)) /\ (Exists(f, p) => IsFile(f, p))

\* os.remove
RemoveOk(f, p) == Exists(f, p) /\ ~IsDir(f, p)
Remove(f, p) == Restrict(f, DOMAIN f \ {p})

\* shutil.rmtree: it raises at a directory it cannot list
RmtreeOk(f, p) == IsDir(f, p) /\ \A q \in Subtree(f, p) : f[q].kind = "dir" => f[q].ok
Rmtree(f, p) == Restrict(f, DOMAIN f \ Subtree(f, p))

\* what a failing rmtree has removed when it raises: some subtrees below p that
\* hold no directory it cannot list
RmtreePartial(f, p) ==
    IF ~IsDir(f, p) THEN {f}
    ELSE LET removable == {q \in Subtree(f, p) \ {p} : RmtreeOk(f, q) \/ RemoveOk(f, q)}
         IN  {Restrict(f, DOMAIN f \ UNION {Subtree(f, q) : q \in Q}) : Q \in SUBSET removable}

\* os.rename(src, dst) with dst not existing
RenameOk(f, src, dst) ==
    /\ Exists(f, src)
    /\ IsDir(f, Dirname(dst))
    /\ ~IsPrefix(src, dst)
MoveTree(f, src, dst) ==
    LET moved == Subtree(f, src)
        kept == DOMAIN f \ moved
    IN  [q \in kept \cup {Rebase(m, src, dst) : m \in moved} |->
            IF q \in kept THEN f[q]
            ELSE f[CHOOSE m \in moved : Rebase(m, src, dst) = q]]

\* shutil.copy2(src, dst) with dst not existing
Copy2Ok(f, src, dst) == IsFile(f, src) /\ f[src].ok /\ IsDir(f, Dirname(dst))

\* shutil.copytree(src, dst) with dst not existing: it raises before it creates
\* anything when src cannot be listed; os.makedirs creates the missing parents of
\* dst; what lies below src and can be read is copied, and an unreadable part
\* makes it raise in the end
CopytreeStarts(f, src, dst) ==
    /\ IsDir(f, src) /\ f[src].ok
    /\ \A k \in 0..(Len(dst) - 1) :
          Exists(f, SubSeq(dst, 1, k)) => IsDir(f, SubSeq(dst, 1, k))
Copyable(f, src) ==
    {q \in Subtree(f, src) :
        /\ f[q].ok
        /\ f[q].kind # "other"
        /\ \A k \in Len(src)..Len(q) : f[SubSeq(q, 1, k)].ok}
CopytreeOk(f, src, dst) ==
    /\ CopytreeStarts(f, src, dst)
    /\ Copyable(f, src) = Subtree(f, src)
Copytree(f, src, dst) ==
    LET copied == Copyable(f, src)
        parents == {SubSeq(dst, 1, k) : k \in 0..(Len(dst) - 1)} \ DOMAIN f
        new == {Rebase(m, src, dst) : m \in copied} \ DOMAIN f
    IN  [q \in DOMAIN f \cup parents \cup new |->
            IF q \in DOMAIN f THEN f[q]
            ELSE IF q \in parents THEN Dir
            ELSE f[CHOOSE m \in copied : Rebase(m, src, dst) = q]]

\* shutil.move(src, dst): into dst when dst is a directory, else a rename onto dst
MoveTarget(f, src, dst) == IF IsDir(f, dst) THEN Join(dst, Basename(src)) ELSE dst
\* src and dst are the same file: os.rename(src, dst) does nothing and succeeds
MoveOk(f, src, dst) ==
    LET real_dst == MoveTarget(f, src, dst)
    IN  /\ Exists(f, src)
        /\ src # dst =>
              /\ IsDir(f, dst) => ~Exists(f, real_dst)
              /\ Exists(f, real_dst) => (IsFile(f, real_dst) /\ ~IsDir(f, src))
              /\ IsDir(f, Dirname(real_dst))
              /\ ~IsPrefix(src, real_dst)
Move(f, src, dst) ==
    LET real_dst == MoveTarget(f, src, dst)
    IN  IF src = dst THEN f
        ELSE MoveTree(Restrict(f, DOMAIN f \ {real_dst}), src, real_dst)

(***************************************************************************)
(* Bounds and inputs                                                       *)
(***************************************************************************)
\* load_path calls of a session, the startup navigation included
MaxLoads == 3

\* the same for a session of navigation alone
MaxNavLoads == 6

\* paths the filesystem holds
MaxNodes == 4

\* load_path calls of a session of dropping
MaxDropLoads == 4

\* load_path calls of a session of changing settings
MaxSettingsLoads == 2

\* entries of a scanned directory
MaxScanEntries == 3

\* load_path calls of a session of copying and pasting
MaxPasteLoads == 4

\* load_path calls of a session of navigation and file operations
MaxOpsLoads == 3

\* load_path calls of a session of navigation with a fair scheduler
MaxFairLoads == 3

\* the names "b", "c", "D", "n.t" and "e"
nb == <<98>>
nc == <<99>>
nD == <<68>>
nNote == <<110, 46, 116>>
ne == <<101>>

\* the home directory at startup: the folder b and the file n.t
MainFS == (Home :> Dir) @@ (<<nb>> :> Dir) @@ (<<nNote>> :> File(5))

\* the same with folder c in b, and folder D, which cannot be listed
NavFS == MainFS @@ (<<nb, nc>> :> Dir) @@ (<<nD>> :> NoListDir)

\* the directories that are scanned: the home directory, which can or cannot be
\* listed, holding up to MaxScanEntries of the names "a", "B", "b", "C.t", each a
\* folder, a file of 5 or 1536 bytes, a file whose size cannot be read, or
\* neither file nor folder
ScanNames == {<<97>>, <<66>>, nb, <<67, 46, 116>>}
ScanKinds == {Dir, NoListDir, File(5), File(1536), NoStatFile, LateStatFile, Other}
ScanFSs ==
    {[p \in {Home} \cup {<<n>> : n \in S} |-> IF p = Home THEN root ELSE k[p[1]]] :
        root \in {Dir, NoListDir}, S \in {T \in SUBSET ScanNames : Cardinality(T) <= MaxScanEntries},
        k \in [ScanNames -> ScanKinds]}

\* the directories that are searched: those of ScanFSs that hold folders and files
\* of 5 bytes
SearchFSs == {f \in ScanFSs : \A q \in DOMAIN f : f[q] \in {Dir, File(5)}}

\* the texts typed into the search bar of a session of searching: "", "B", " b",
\* "c." and "z"
Queries == {<<>>, <<66>>, <<32, 98>>, <<99, 46>>, <<122>>}

\* the home directories of the sessions of copying and pasting: one file named
\* "n.t", ".h", "x" or "a.b.t"; the folder c, empty or holding the directory D
\* that cannot be listed; the file n.t beside the empty folder b; the file n.t
\* beside "n - Copy2.t"
PasteFSs ==
    {(Home :> Dir) @@ (<<n>> :> File(5)) :
        n \in {nNote, <<46, 104>>, <<120>>, <<97, 46, 98, 46, 116>>}}
        \cup {(Home :> Dir) @@ (<<nc>> :> Dir),
              (Home :> Dir) @@ (<<nc>> :> Dir) @@ (<<nc, nD>> :> NoListDir),
              (Home :> Dir) @@ (<<nb>> :> Dir) @@ (<<nNote>> :> File(5)),
              (Home :> Dir) @@ (<<nNote>> :> File(5))
                  @@ (<<<<110, 32, 45, 32, 67, 111, 112, 121, 50, 46, 116>>>> :> File(5))}

AnimTypes == {"Fade", "Slide", "None"}

\* DEFAULT_THEMES: a theme maps colour roles to the text of a colour
DefaultTheme ==
    [background |-> "#1e1e1e", text |-> "#dddddd", selected_bg |-> "#007acc",
     hover_bg |-> "#094771", tooltip_bg |-> "#333333"]
LightTheme ==
    [background |-> "#f0f0f0", text |-> "#202020", selected_bg |-> "#007acc",
     hover_bg |-> "#cce4f7", tooltip_bg |-> "#eeeeee"]

\* the themes a settings file may hold: the default, one with other colours, one
\* with a role more, those with one role less, one with no role, one with a foreign
\* role only
StartThemes ==
    {DefaultTheme, LightTheme, LightTheme @@ ("accent" :> "#ff0000"),
     <<>>, ("accent" :> "#ff0000")}
        \cup {[k \in DOMAIN LightTheme \ {gone} |-> LightTheme[k]] :
                gone \in DOMAIN LightTheme}

\* what AnimationSettingsDialog offers
Durations == {100, 200, 400, 800}

\* the roles whose colour is picked in ThemeEditorDialog, and the colour picked
PickKeys == {"background", "text"}
PickColours == {"#000000"}

(***************************************************************************)
(* State                                                                   *)
(***************************************************************************)
VARIABLES
    fs,               \* the filesystem
    current_path,     \* Filey.current_path
    history,          \* Filey.history
    history_index,    \* Filey.history_index (0-based, as in the code)
    clipboard_path,   \* Filey.clipboard_path
    full_entry_list,  \* Filey.full_entry_list
    items,            \* the rows of the list widget
    search_text,      \* the text of the search bar
    load_thread,      \* Filey.load_thread: 0 (None) or the number of a thread
    threads,          \* every QThread created so far, by number
    queue,            \* finished signals queued for the UI thread, oldest first
    animation,        \* Filey.animation and the entries its completion will install
    anim_type,        \* Filey.anim_type
    anim_duration,    \* Filey.anim_duration
    current_theme,    \* Filey.current_theme
    stored,           \* the settings file
    back_enabled,     \* FileyWindow.back_button
    forward_enabled,  \* FileyWindow.forward_button
    out               \* what the last handler did: its name, the message it showed,
                      \* whether it called load_path and save_session

vars == <<fs, current_path, history, history_index, clipboard_path, full_entry_list,
          items, search_text, load_thread, threads, queue, animation, anim_type,
          anim_duration, current_theme, stored, back_enabled, forward_enabled, out>>

NoPath == [some |-> FALSE, path |-> <<>>]
SomePath(p) == [some |-> TRUE, path |-> p]

\* no animation runs; id is the number of the scan whose entries an animation holds,
\* running the number of QPropertyAnimation objects that run, pending the number of
\* them whose finished signal is connected to a deferred _rebuild_file_list
Idle == [phase |-> "idle", kind |-> "", entries |-> <<>>, id |-> 0,
         running |-> 0, pending |-> 0]

\* what the last handler did; arg: the input a handler notes (<<>>: none)
DidWith(op, msg, loaded, saved, arg) ==
    [op |-> op, msg |-> msg, loaded |-> loaded, saved |-> saved, arg |-> arg]
Did(op, msg, loaded, saved) == DidWith(op, msg, loaded, saved, <<>>)

(***************************************************************************)
(* Filey._rebuild_file_list                                                *)
(***************************************************************************)
\* the text of a row: the name, then " (<size_text>)" when size_text is not empty
DisplayName(e) ==
    IF e.size_text = <<>> THEN e.name
    ELSE e.name \o <<32, 40>> \o e.size_text \o <<41>>

\* one row per entry, in order: its text, data(256) and data(257)
Rebuild(entries) ==
    [i \in 1..Len(entries) |->
        [text |-> DisplayName(entries[i]), path |-> entries[i].full_path,
         is_folder |-> entries[i].is_folder]]

(***************************************************************************)
(* Filey.save_session, FileyWindow.update_nav_buttons                      *)
(***************************************************************************)
Session(path, duration, type, theme) ==
    [last_path |-> path, anim_duration |-> duration, anim_type |-> type, theme |-> theme]

\* the settings file: found (SETTINGS_FILE.exists()), readable (it opens and
\* json.load parses it), data (the mapping it holds), writable (it opens for writing)
SettingsFile(data) == [found |-> TRUE, readable |-> TRUE, data |-> data, writable |-> TRUE]
NoFile == [found |-> FALSE, readable |-> FALSE, data |-> <<>>, writable |-> TRUE]
Unreadable == [found |-> TRUE, readable |-> FALSE, data |-> <<>>, writable |-> TRUE]
ReadOnly(file) == [file EXCEPT !.writable = FALSE]

\* save_settings: the file is rewritten, or the failure is printed and it stays
SaveSettings(file, data) == IF file.writable THEN SettingsFile(data) ELSE file

\* load_settings; None is the empty mapping: __init__ only asks whether the result
\* is truthy, and both are not
LoadSettings(file) == IF file.found /\ file.readable THEN file.data ELSE <<>>

\* dict.get
Get(d, k, default) == IF k \in DOMAIN d THEN d[k] ELSE default

BackEnabled(idx) == idx > 0

\* mutant of ForwardEnabled: forward is offered at the last entry too
ForwardEnabledAtEnd(idx, history_len) == idx < history_len

ForwardEnabled(idx, history_len) == idx < history_len - 1

(***************************************************************************)
(* Filey.load_path                                                         *)
(***************************************************************************)
\* mutants of PushHistory: the slice one entry short, and no slice at all
PushHistoryShort(hist, idx, path) == Append(SubSeq(hist, 1, idx), path)
PushHistoryNoCut(hist, idx, path) == Append(hist, path)

\* lines 425-426: the entries up to the cursor, then the new path
PushHistory(hist, idx, path) == Append(SubSeq(hist, 1, idx + 1), path)

\* QThread.isRunning: started and not yet finished
IsRunning(t) == t.state \in {"running", "emitted"}

\* mutant of StopPrevious: the previous thread is neither stopped nor waited for
StopPreviousNoWait(thr, old) == thr

\* lines 434-442 for the thread numbered old: quit() and wait() let a scan that
\* has not run yet run to its end (its finished signal is queued) and end the
\* thread; dropping the last reference then destroys the thread object, and with
\* it the record of what its scan emitted
StopPrevious(thr, old) ==
    IF old = 0 THEN thr
    ELSE [thr EXCEPT ![old].state = "deleted", ![old].result = <<>>]

\* mutant of FlushedBy: quit() ends the previous thread before its scan has run
FlushedByNone(f, thr, old) == {<<>>}

\* the finished signals that wait() of lines 437-438 lets the previous scan emit
FlushedBy(f, thr, old) ==
    IF old # 0 /\ thr[old].state = "running"
    THEN {<<[id |-> old, entries |-> r.entries, failed |-> r.failed,
             animate |-> thr[old].animate]>> : r \in ScanResults(f, thr[old].path)}
    ELSE {<<>>}

\* result: what Worker.run of the thread emitted, once it ran and while the thread
\* is the one Filey.load_thread refers to
NewThread(path, animate) ==
    [state |-> "running", path |-> path, animate |-> animate, result |-> <<>>]

\* mutant of LoadPath: a path is taken as the current one only when it is pushed
LoadPathStays(f, idx, path, add_history, animate) ==
    LET hist == IF add_history THEN PushHistory(history, idx, path) ELSE history
        nidx == IF add_history THEN idx + 1 ELSE idx
    IN  /\ current_path' = IF add_history THEN path ELSE current_path
        /\ history' = hist
        /\ history_index' = nidx
        /\ back_enabled' = BackEnabled(nidx)
        /\ forward_enabled' = ForwardEnabled(nidx, Len(hist))
        /\ \E flushed \in FlushedBy(f, threads, load_thread) : queue' = queue \o flushed
        /\ threads' = Append(StopPrevious(threads, load_thread), NewThread(path, animate))
        /\ load_thread' = Len(threads) + 1
        /\ stored' = SaveSettings(stored, Session(path, anim_duration, anim_type,
                                                   current_theme))

\* load_path(path, add_history, animate) called with the filesystem f and the
\* cursor idx (go_back and go_forward move the cursor before they call it)
LoadPath(f, idx, path, add_history, animate) ==
    LET hist == IF add_history THEN PushHistory(history, idx, path) ELSE history
        nidx == IF add_history THEN idx + 1 ELSE idx
    IN  /\ current_path' = path
        /\ history' = hist
        /\ history_index' = nidx
        /\ back_enabled' = BackEnabled(nidx)
        /\ forward_enabled' = ForwardEnabled(nidx, Len(hist))
        /\ \E flushed \in FlushedBy(f, threads, load_thread) : queue' = queue \o flushed
        /\ threads' = Append(StopPrevious(threads, load_thread), NewThread(path, animate))
        /\ load_thread' = Len(threads) + 1
        /\ stored' = SaveSettings(stored, Session(path, anim_duration, anim_type,
                                                   current_theme))

\* what load_path leaves alone
LoadPathFrame ==
    UNCHANGED <<full_entry_list, items, animation, anim_type, anim_duration, current_theme>>

\* the session goes on while fewer than n threads were started
Within(n) == Len(threads) < n

\* the filesystem f fits the bound
Fits(f) == Cardinality(DOMAIN f) <= MaxNodes

(***************************************************************************)
(* Startup: Filey.__init__ and FileyWindow.__init__                        *)
(***************************************************************************)
\* the settings file at startup: absent or unreadable (load_settings returns
\* None), or holding a last path and an animation type
StartSettings ==
    {[present |-> FALSE, last_path |-> Home, anim_type |-> "Fade"],
     [present |-> TRUE, last_path |-> <<ne>>, anim_type |-> "Fade"]}
        \cup {[present |-> TRUE, last_path |-> Home, anim_type |-> t] :
                t \in AnimTypes \ {"Fade"}}

StartFile(st) ==
    IF st.present
    THEN SettingsFile(Session(st.last_path, 200, st.anim_type, DefaultTheme))
    ELSE NoFile

\* mutant of StartTheme: the roles a loaded theme lacks are taken from the default
StartThemeFills(settings) ==
    LET theme_loaded == Get(settings, "theme", DefaultTheme)
    IN  [k \in DOMAIN theme_loaded \cup DOMAIN DefaultTheme |->
            IF k \in DOMAIN theme_loaded THEN theme_loaded[k] ELSE DefaultTheme[k]]

\* the theme __init__ takes from the loaded settings
StartTheme(settings) ==
    LET theme_loaded == Get(settings, "theme", DefaultTheme)
    IN  IF \A k \in DOMAIN DefaultTheme : k \in DOMAIN theme_loaded
        THEN theme_loaded
        ELSE DefaultTheme

\* the settings __init__ starts with
StartState(file) ==
    LET settings == LoadSettings(file)
    IN  IF DOMAIN settings # {}
        THEN [current_path |-> Get(settings, "last_path", Home),
              anim_duration |-> Get(settings, "anim_duration", 200),
              anim_type |-> Get(settings, "anim_type", "Fade"),
              current_theme |-> StartTheme(settings)]
        ELSE [current_path |-> Home, anim_duration |-> 200, anim_type |-> "Fade",
              current_theme |-> DefaultTheme]

\* Filey.__init__ with the settings file `file`, FileyWindow.__init__ after it: the
\* settings are loaded, load_path starts the first scan and saves the session
InitFrom(f, file, arg) ==
    LET st == StartState(file)
    IN  /\ fs = f
        /\ current_path = st.current_path
        /\ history = <<st.current_path>>
        /\ history_index = 0
        /\ clipboard_path = NoPath
        /\ full_entry_list = <<>>
        /\ items = <<>>
        /\ search_text = <<>>
        /\ load_thread = 1
        /\ threads = <<NewThread(st.current_path, FALSE)>>
        /\ queue = <<>>
        /\ animation = Idle
        /\ anim_type = st.anim_type
        /\ anim_duration = st.anim_duration
        /\ current_theme = st.current_theme
        /\ stored = SaveSettings(file, Session(st.current_path, st.anim_duration,
                                               st.anim_type, st.current_theme))
        /\ back_enabled = FALSE
        /\ forward_enabled = FALSE
        /\ out = DidWith("init", "", TRUE, TRUE, arg)

InitWith(f, st) == InitFrom(f, StartFile(st), <<>>)

\* a first start: no settings file
Init == InitWith(MainFS, [present |-> FALSE, last_path |-> Home, anim_type |-> "Fade"])

\* a first start in any of the directories ScanFSs, or with a last path that is gone
InitScan ==
    \E f \in ScanFSs, p \in {Home, <<ne>>} :
        InitWith(f, [present |-> p # Home, last_path |-> p, anim_type |-> "Fade"])

\* a first start in any of the directories SearchFSs
InitSearch ==
    \E f \in SearchFSs :
        InitWith(f, [present |-> FALSE, last_path |-> Home, anim_type |-> "Fade"])

\* a start in any of the directories PasteFSs, with the animation switched off
InitPaste ==
    \E f \in PasteFSs :
        InitWith(f, [present |-> TRUE, last_path |-> Home, anim_type |-> "None"])

\* a start in the directory MainFS, with the animation switched off
InitOps == InitWith(MainFS, [present |-> TRUE, last_path |-> Home, anim_type |-> "None"])

\* a start with any settings file, in the home directory that holds D
InitNav == \E st \in StartSettings : InitWith(NavFS, st)

\* the settings files of a start: none, one that does not parse, an empty mapping,
\* one with the last path only, one with a theme only, full ones with every theme
\* of StartThemes, and one that cannot be rewritten
StartFiles ==
    {NoFile, Unreadable, SettingsFile(<<>>), SettingsFile("last_path" :> <<nb>>),
     SettingsFile("theme" :> LightTheme),
     ReadOnly(SettingsFile(Session(Home, 400, "Slide", LightTheme)))}
        \cup {SettingsFile(Session(Home, 400, "Slide", t)) : t \in StartThemes}

\* a start with any of the settings files StartFiles; the file is noted
InitSettings == \E file \in StartFiles : InitFrom(MainFS, file, <<file>>)

(***************************************************************************)
(* The scan thread and the delivery of its result                          *)
(***************************************************************************)
\* Worker.run in thread id: it lists the path and emits finished once; the
\* signal crosses to the UI thread as a queued call
WorkerRun(id) ==
    /\ threads[id].state = "running"
    /\ \E r \in ScanResults(fs, threads[id].path) :
          /\ queue' = Append(queue, [id |-> id, entries |-> r.entries, failed |-> r.failed,
                                     animate |-> threads[id].animate])
          /\ threads' = [threads EXCEPT ![id].state = "emitted", ![id].result = r.entries]
    /\ out' = Did("run", "", FALSE, FALSE)
    /\ UNCHANGED <<fs, current_path, history, history_index, clipboard_path,
                   full_entry_list, items, search_text, load_thread, animation,
                   anim_type, anim_duration, current_theme, stored, back_enabled,
                   forward_enabled>>

\* the animation whose finished signal is being handled: it has stopped and its
\* completion has been delivered
Finished(old) == [old EXCEPT !.running = 0, !.pending = 0]

\* mutant of Assign: the object Filey.animation held goes on running
AssignKeeps(old, new) ==
    new @@ [running |-> old.running + 1,
            pending |-> old.pending + (IF new.phase = "out" THEN 1 ELSE 0)]

\* self.animation = QPropertyAnimation(...) followed by start(): the object the
\* attribute held has no parent and no other reference, so it is destroyed with its
\* connections, and the new one runs
Assign(old, new) ==
    new @@ [running |-> 1, pending |-> IF new.phase = "out" THEN 1 ELSE 0]

\* mutant of AnimateReload: the list is replaced when phase 1 starts
AnimateReloadSwapsFirst(entries, id) ==
    IF anim_type \in {"Fade", "Slide"}
    THEN [items |-> Rebuild(entries),
          animation |-> Assign(animation, [phase |-> "out", kind |-> anim_type,
                                           entries |-> entries, id |-> id])]
    ELSE [items |-> Rebuild(entries), animation |-> animation]

\* animate_file_list_reload for the entries of scan id: the rows and the animation
\* it leaves; a new QPropertyAnimation replaces the one Filey.animation held, which
\* is destroyed with its pending completion
AnimateReload(entries, id) ==
    IF anim_type = "None" THEN [items |-> Rebuild(entries), animation |-> animation]
    ELSE IF anim_type \in {"Fade", "Slide"}
    THEN [items |-> items,
          animation |-> Assign(animation, [phase |-> "out", kind |-> anim_type,
                                           entries |-> entries, id |-> id])]
    ELSE [items |-> items, animation |-> animation]

\* the UI thread takes the oldest queued finished signal: _on_load_finished, then
\* load_thread.quit of the thread that emitted it
OnLoadFinishedNoting(arg) ==
    /\ queue # <<>>
    /\ LET ev == Head(queue)
           shown == IF ev.animate THEN AnimateReload(ev.entries, ev.id)
                    ELSE [items |-> Rebuild(ev.entries), animation |-> animation]
       IN  /\ full_entry_list' = ev.entries
           /\ items' = shown.items
           /\ animation' = shown.animation
           /\ threads' = IF threads[ev.id].state = "emitted"
                         THEN [threads EXCEPT ![ev.id].state = "finished"]
                         ELSE threads
    /\ queue' = Tail(queue)
    /\ out' = DidWith("load_finished", "", FALSE, FALSE, arg)
    /\ UNCHANGED <<fs, current_path, history, history_index, clipboard_path,
                   search_text, load_thread, anim_type, anim_duration, current_theme,
                   stored, back_enabled, forward_enabled>>

\* mutant of OnLoadFinished: an empty result leaves the lists as they are
OnLoadFinishedKeeps ==
    /\ queue # <<>>
    /\ LET ev == Head(queue)
           shown == IF ev.animate THEN AnimateReload(ev.entries, ev.id)
                    ELSE [items |-> Rebuild(ev.entries), animation |-> animation]
       IN  /\ full_entry_list' = IF ev.entries = <<>> THEN full_entry_list ELSE ev.entries
           /\ items' = IF ev.entries = <<>> THEN items ELSE shown.items
           /\ animation' = IF ev.entries = <<>> THEN animation ELSE shown.animation
           /\ threads' = IF threads[ev.id].state = "emitted"
                         THEN [threads EXCEPT ![ev.id].state = "finished"]
                         ELSE threads
    /\ queue' = Tail(queue)
    /\ out' = Did("load_finished", "", FALSE, FALSE)
    /\ UNCHANGED <<fs, current_path, history, history_index, clipboard_path,
                   search_text, load_thread, anim_type, anim_duration, current_theme,
                   stored, back_enabled, forward_enabled>>

OnLoadFinished == OnLoadFinishedNoting(<<>>)

\* the same handler, noting the phase the transition was in when it ran
OnLoadFinishedNoted == OnLoadFinishedNoting(<<animation.phase>>)

\* load_thread.finished -> deleteLater: the finished thread object is destroyed
\* while Filey.load_thread still refers to it
ThreadDeleted ==
    /\ load_thread # 0
    /\ threads[load_thread].state = "finished"
    /\ threads' = [threads EXCEPT ![load_thread].state = "deleted"]
    /\ out' = Did("thread_deleted", "", FALSE, FALSE)
    /\ UNCHANGED <<fs, current_path, history, history_index, clipboard_path,
                   full_entry_list, items, search_text, load_thread, queue, animation,
                   anim_type, anim_duration, current_theme, stored, back_enabled,
                   forward_enabled>>

\* phase 1 of the animation ends: _after_fade_out / _after_slide_out
AfterAnimOut ==
    /\ animation.phase = "out"
    /\ items' = Rebuild(animation.entries)
    /\ animation' = Assign(Finished(animation),
                           [phase |-> "in", kind |-> animation.kind, entries |-> <<>>,
                            id |-> 0])
    /\ out' = Did("after_out", "", FALSE, FALSE)
    /\ UNCHANGED <<fs, current_path, history, history_index, clipboard_path,
                   full_entry_list, search_text, load_thread, threads, queue,
                   anim_type, anim_duration, current_theme, stored, back_enabled,
                   forward_enabled>>

\* phase 2 of the animation ends
AnimInDone ==
    /\ animation.phase = "in"
    /\ animation' = Idle
    /\ out' = Did("anim_done", "", FALSE, FALSE)
    /\ UNCHANGED <<fs, current_path, history, history_index, clipboard_path,
                   full_entry_list, items, search_text, load_thread, threads, queue,
                   anim_type, anim_duration, current_theme, stored, back_enabled,
                   forward_enabled>>

(***************************************************************************)
(* Navigation                                                              *)
(***************************************************************************)
\* item_activated on row i: a folder is navigated to, a file is handed to the
\* desktop's opener
ItemActivated(i) ==
    /\ i \in 1..Len(items)
    /\ IF items[i].is_folder
       THEN /\ LoadPath(fs, history_index, items[i].path, TRUE, TRUE)
            /\ out' = Did("item_activated", "", TRUE, TRUE)
            /\ LoadPathFrame
            /\ UNCHANGED <<fs, clipboard_path, search_text>>
       ELSE /\ out' = Did("item_activated", "", FALSE, FALSE)
            /\ UNCHANGED <<fs, current_path, history, history_index, clipboard_path,
                           full_entry_list, items, search_text, load_thread, threads,
                           queue, animation, anim_type, anim_duration, current_theme,
                           stored, back_enabled, forward_enabled>>

CanGoBack(idx) == idx > 0
CanGoForward(idx, history_len) == idx < history_len - 1

\* mutant of GoBack: the cursor is clamped at 0 and the path reloaded in any case
GoBackClamped ==
    LET idx == IF history_index > 0 THEN history_index - 1 ELSE 0
    IN  /\ LoadPath(fs, idx, history[idx + 1], FALSE, FALSE)
        /\ out' = Did("go_back", "", TRUE, TRUE)
        /\ LoadPathFrame
        /\ UNCHANGED <<fs, clipboard_path, search_text>>

\* FileyWindow.go_back
GoBack ==
    IF CanGoBack(history_index)
    THEN /\ LoadPath(fs, history_index - 1, history[history_index], FALSE, FALSE)
         /\ out' = Did("go_back", "", TRUE, TRUE)
         /\ LoadPathFrame
         /\ UNCHANGED <<fs, clipboard_path, search_text>>
    ELSE /\ out' = Did("go_back", "", FALSE, FALSE)
         /\ UNCHANGED <<fs, current_path, history, history_index, clipboard_path,
                        full_entry_list, items, search_text, load_thread, threads,
                        queue, animation, anim_type, anim_duration, current_theme,
                        stored, back_enabled, forward_enabled>>

\* mutant of GoForward: the path is loaded with add_history=True
GoForwardPushes ==
    IF CanGoForward(history_index, Len(history))
    THEN /\ LoadPath(fs, history_index + 1, history[history_index + 2], TRUE, FALSE)
         /\ out' = Did("go_forward", "", TRUE, TRUE)
         /\ LoadPathFrame
         /\ UNCHANGED <<fs, clipboard_path, search_text>>
    ELSE /\ out' = Did("go_forward", "", FALSE, FALSE)
         /\ UNCHANGED <<fs, current_path, history, history_index, clipboard_path,
                        full_entry_list, items, search_text, load_thread, threads,
                        queue, animation, anim_type, anim_duration, current_theme,
                        stored, back_enabled, forward_enabled>>

\* FileyWindow.go_forward
GoForward ==
    IF CanGoForward(history_index, Len(history))
    THEN /\ LoadPath(fs, history_index + 1, history[history_index + 2], FALSE, FALSE)
         /\ out' = Did("go_forward", "", TRUE, TRUE)
         /\ LoadPathFrame
         /\ UNCHANGED <<fs, clipboard_path, search_text>>
    ELSE /\ out' = Did("go_forward", "", FALSE, FALSE)
         /\ UNCHANGED <<fs, current_path, history, history_index, clipboard_path,
                        full_entry_list, items, search_text, load_thread, threads,
                        queue, animation, anim_type, anim_duration, current_theme,
                        stored, back_enabled, forward_enabled>>

(***************************************************************************)
(* File operations                                                         *)
(***************************************************************************)
\* what a handler that does not call load_path leaves alone
NoLoad ==
    UNCHANGED <<current_path, history, history_index, load_thread, threads, queue,
                stored, back_enabled, forward_enabled>>

\* a handler that only shows a message (or does nothing at all)
OnlyShows(op, msg) ==
    /\ out' = Did(op, msg, FALSE, FALSE)
    /\ NoLoad
    /\ LoadPathFrame
    /\ UNCHANGED <<fs, clipboard_path, search_text>>

\* mutant of Refreshes: the reload is asked for with add_history=True
RefreshesPushes(op, f) ==
    /\ Fits(f)
    /\ fs' = f
    /\ LoadPath(f, history_index, current_path, TRUE, FALSE)
    /\ out' = Did(op, "", TRUE, TRUE)
    /\ LoadPathFrame
    /\ UNCHANGED <<clipboard_path, search_text>>

\* the OS call succeeded and left the filesystem f: the list is reloaded with
\* load_path(current_path, add_history=False, animate=False)
Refreshes(op, f) ==
    /\ Fits(f)
    /\ fs' = f
    /\ LoadPath(f, history_index, current_path, FALSE, FALSE)
    /\ out' = Did(op, "", TRUE, TRUE)
    /\ LoadPathFrame
    /\ UNCHANGED <<clipboard_path, search_text>>

\* the OS call raised and left the filesystem f: the message is shown and load_path
\* is not reached
Raises(op, msg, f) ==
    /\ Fits(f)
    /\ fs' = f
    /\ out' = Did(op, msg, FALSE, FALSE)
    /\ NoLoad
    /\ LoadPathFrame
    /\ UNCHANGED <<clipboard_path, search_text>>

\* the texts typed into QInputDialog: " e" and "b"; blanks, or the dialog cancelled
InputNames == {<<32, 101>>, nb}
Blank == <<32, 32>>
Typed == {[name |-> n, ok |-> TRUE] : n \in InputNames \cup {Blank}}
            \cup {[name |-> ne, ok |-> FALSE]}



\* create_folder
CreateFolder(name, ok) ==
    LET new_path == Join(current_path, Strip(name))
    IN  IF ok /\ Strip(name) # <<>>
        THEN IF MkdirOk(fs, new_path)
             THEN Refreshes("create_folder", fs @@ (new_path :> Dir))
             ELSE Raises("create_folder", "Could not create folder", fs)
        ELSE OnlyShows("create_folder", "")

\* create_file
CreateFile(name, ok) ==
    LET new_path == Join(current_path, Strip(name))
    IN  IF ok /\ Strip(name) # <<>>
        THEN IF Exists(fs, new_path)
             THEN OnlyShows("create_file", "File already exists.")
             ELSE IF CreateOk(fs, new_path)
             THEN Refreshes("create_file", fs @@ (new_path :> File(0)))
             ELSE Raises("create_file", "Could not create file", fs)
        ELSE OnlyShows("create_file", "")

\* delete_item with row i the current item (0: none) and the answer given to the
\* confirmation
DeleteItem(i, yes) ==
    IF i = 0 THEN OnlyShows("delete_item", "No item selected.")
    ELSE IF ~yes THEN OnlyShows("delete_item", "")
    ELSE LET path == items[i].path
         IN  IF items[i].is_folder
             THEN IF RmtreeOk(fs, path)
                  THEN Refreshes("delete_item", Rmtree(fs, path))
                  ELSE \E f \in RmtreePartial(fs, path) :
                          Raises("delete_item", "Could not delete", f)
             ELSE IF RemoveOk(fs, path)
                  THEN Refreshes("delete_item", Remove(fs, path))
                  ELSE Raises("delete_item", "Could not delete", fs)

\* rename_item with row i the current item (0: none)
RenameItem(i, new_name, ok) ==
    IF i = 0 THEN OnlyShows("rename_item", "No item selected.")
    ELSE LET old_path == items[i].path
             new_path == Join(current_path, Strip(new_name))
         IN  IF ok /\ Strip(new_name) # <<>>
             THEN IF Exists(fs, new_path)
                  THEN OnlyShows("rename_item", "Name already exists.")
                  ELSE IF RenameOk(fs, old_path, new_path)
                  THEN Refreshes("rename_item", MoveTree(fs, old_path, new_path))
                  ELSE Raises("rename_item", "Could not rename", fs)
             ELSE OnlyShows("rename_item", "")

\* mutant of CopyItemNoting: a slot that holds a path keeps it
CopyItemKeeps(i, arg) ==
    IF i = 0 THEN OnlyShows("copy_item", "No item selected.")
    ELSE /\ clipboard_path' = IF clipboard_path.some THEN clipboard_path
                              ELSE SomePath(items[i].path)
         /\ out' = DidWith("copy_item", "", FALSE, FALSE, arg)
         /\ NoLoad
         /\ LoadPathFrame
         /\ UNCHANGED <<fs, search_text>>

\* copy_item with row i the current item (0: none)
CopyItemNoting(i, arg) ==
    IF i = 0 THEN OnlyShows("copy_item", "No item selected.")
    ELSE /\ clipboard_path' = SomePath(items[i].path)
         /\ out' = DidWith("copy_item", "", FALSE, FALSE, arg)
         /\ NoLoad
         /\ LoadPathFrame
         /\ UNCHANGED <<fs, search_text>>

CopyItem(i) == CopyItemNoting(i, <<>>)

\* the same handler, noting the path of the current item
CopyItemNoted(i) == CopyItemNoting(i, IF i = 0 THEN <<>> ELSE <<items[i].path>>)

\* f"{base} - Copy{i}{ext}" for the path, base and ext from os.path.splitext
CopyName(path, i) ==
    LET se == Splitext(Basename(path))
    IN  Join(Dirname(path), se.base \o sCopySuffix \o Digits(i) \o se.ext)

\* the while loop of unique_path: the first i from i on whose name is unused
RECURSIVE FirstUnused(_, _, _)
FirstUnused(f, path, i) ==
    IF ~Exists(f, CopyName(path, i)) THEN CopyName(path, i)
    ELSE FirstUnused(f, path, i + 1)

\* mutant of unique_path: the destination is used as it is
UniquePathSame(f, path) == path

\* unique_path
UniquePath(f, path) == IF ~Exists(f, path) THEN path ELSE FirstUnused(f, path, 1)

\* paste_item (a folder pasted deeper than one level below itself is left out:
\* copytree then copies its own copy until a path is too long)
PasteItem ==
    IF ~clipboard_path.some \/ ~Exists(fs, clipboard_path.path)
    THEN OnlyShows("paste_item", "Nothing to paste or source no longer exists.")
    ELSE LET src == clipboard_path.path
             dest == Join(current_path, Basename(src))
             dest_unique == UniquePath(fs, dest)
         IN  IF IsDir(fs, src)
             THEN /\ IsPrefix(src, dest_unique) => Dirname(dest_unique) = src
                  /\ IF CopytreeOk(fs, src, dest_unique)
                     THEN Refreshes("paste_item", Copytree(fs, src, dest_unique))
                     ELSE IF CopytreeStarts(fs, src, dest_unique)
                     THEN Raises("paste_item", "Could not paste",
                                 Copytree(fs, src, dest_unique))
                     ELSE Raises("paste_item", "Could not paste", fs)
             ELSE IF Copy2Ok(fs, src, dest_unique)
                  THEN Refreshes("paste_item", fs @@ (dest_unique :> fs[src]))
                  ELSE Raises("paste_item", "Could not paste", fs)

(***************************************************************************)
(* Drag and drop                                                           *)
(***************************************************************************)
\* os.path.normpath: "." is dropped, and ".." drops the name before it
RECURSIVE Normpath(_, _)
Normpath(done, rest) ==
    IF rest = <<>> THEN done
    ELSE IF Head(rest) = <<46>> THEN Normpath(done, Tail(rest))
    ELSE IF Head(rest) = <<46, 46>>
         THEN Normpath(SubSeq(done, 1, Len(done) - 1), Tail(rest))
    ELSE Normpath(Append(done, Head(rest)), Tail(rest))

\* os.path.abspath of an absolute path
AbsPath(p) == Normpath(<<>>, p)

\* the file the operating system finds at p (the directories p passes exist)
Realpath(p) == Normpath(<<>>, p)

\* mutant of DropMoves: a source that is where the drop would put it is reported
\* like a move that failed
RECURSIVE DropMovesWarns(_, _, _, _)
DropMovesWarns(f, urls, target_path, errors) ==
    IF urls = <<>> THEN [fs |-> f, errors |-> errors]
    ELSE LET src_path == Head(urls)
             dest_path == Join(target_path, Basename(src_path))
         IN  IF AbsPath(src_path) = AbsPath(dest_path)
             THEN DropMovesWarns(f, Tail(urls), target_path, errors + 1)
             ELSE IF MoveOk(f, Realpath(src_path), Realpath(dest_path))
             THEN DropMovesWarns(Move(f, Realpath(src_path), Realpath(dest_path)),
                                 Tail(urls), target_path, errors)
             ELSE DropMovesWarns(f, Tail(urls), target_path, errors + 1)

\* the loop of dropEvent over the dragged paths: the filesystem it leaves and the
\* number of moves that raised
RECURSIVE DropMoves(_, _, _, _)
DropMoves(f, urls, target_path, errors) ==
    IF urls = <<>> THEN [fs |-> f, errors |-> errors]
    ELSE LET src_path == Head(urls)
             dest_path == Join(target_path, Basename(src_path))
         IN  IF AbsPath(src_path) = AbsPath(dest_path)
             THEN DropMoves(f, Tail(urls), target_path, errors)
             ELSE IF MoveOk(f, Realpath(src_path), Realpath(dest_path))
             THEN DropMoves(Move(f, Realpath(src_path), Realpath(dest_path)),
                            Tail(urls), target_path, errors)
             ELSE DropMoves(f, Tail(urls), target_path, errors + 1)

\* the folder a drop on row t lands in (0: not on a row)
DropTarget(f, t) ==
    IF t = 0 THEN current_path
    ELSE IF IsDir(f, items[t].path) THEN items[t].path
    ELSE Dirname(items[t].path)

\* dropEvent of the dragged paths on row t (0: not on a row); arg is what the
\* handler notes of its input
DropEventNoting(urls, t, arg) ==
    LET done == DropMoves(fs, urls, DropTarget(fs, t), 0)
    IN  /\ fs' = done.fs
        /\ LoadPath(done.fs, history_index, current_path, FALSE, TRUE)
        /\ out' = DidWith("drop", IF done.errors > 0 THEN "Could not move" ELSE "",
                          TRUE, TRUE, arg)
        /\ LoadPathFrame
        /\ UNCHANGED <<clipboard_path, search_text>>

DropEvent(urls, t) == DropEventNoting(urls, t, <<>>)

\* a drop whose dragged paths, target folder and target row are noted
DropEventNoted(urls, t) == DropEventNoting(urls, t, <<urls, DropTarget(fs, t), t>>)

(***************************************************************************)
(* Search                                                                  *)
(***************************************************************************)
\* the texts typed into the search bar: "" and "B"
SearchTexts == {<<>>, <<66>>}

\* mutant of Filtered: the names are compared as they are, without str.lower
FilteredCased(entries, text) ==
    IF Lower(Strip(text)) = <<>> THEN entries
    ELSE SelectSeq(entries, LAMBDA e : Contains(e.name, Lower(Strip(text))))

\* the filter of search_items
Filtered(entries, text) ==
    IF Lower(Strip(text)) = <<>> THEN entries
    ELSE SelectSeq(entries, LAMBDA e : Contains(Lower(e.name), Lower(Strip(text))))

\* mutant of SearchItems: the filtered rows are shown and the directory is scanned
\* again
SearchItemsRescans(text) ==
    /\ text # search_text
    /\ search_text' = text
    /\ items' = Rebuild(Filtered(full_entry_list, text))
    /\ LoadPath(fs, history_index, current_path, FALSE, FALSE)
    /\ out' = Did("search_items", "", TRUE, TRUE)
    /\ UNCHANGED <<fs, clipboard_path, full_entry_list, animation, anim_type,
                   anim_duration, current_theme>>

\* search_items, called when the text of the search bar changes
SearchItems(text) ==
    /\ text # search_text
    /\ search_text' = text
    /\ items' = Rebuild(Filtered(full_entry_list, text))
    /\ out' = Did("search_items", "", FALSE, FALSE)
    /\ NoLoad
    /\ UNCHANGED <<fs, clipboard_path, full_entry_list, animation, anim_type,
                   anim_duration, current_theme>>

\* the rows a drag can carry: one selected row
Drags == {<<items[i].path>> : i \in 1..Len(items)}

\* what startDrag carries when every row is selected
DragAll == [i \in 1..Len(items) |-> items[i].path]

\* what another program can drag: the path of a row written with "." before its
\* last name, or through a folder of the list and ".."
ForeignDrags ==
    {<<Dirname(items[i].path) \o <<<<46>>, Basename(items[i].path)>>>> :
        i \in 1..Len(items)}
    \cup {<<Dirname(items[i].path)
              \o <<Basename(items[j].path), <<46, 46>>, Basename(items[i].path)>>>> :
            i \in 1..Len(items), j \in {k \in 1..Len(items) : IsDir(fs, items[k].path)}}

\* the scan threads, the queued signals and the animation timers
(***************************************************************************)
(* The settings dialogs of FileyWindow                                     *)
(***************************************************************************)
\* open_animation_settings: the dialog is accepted with a duration and a type of
\* its combo boxes, or cancelled
OpenAnimationSettings(accepted, duration, type) ==
    /\ IF accepted
       THEN /\ anim_duration' = duration
            /\ anim_type' = type
            /\ stored' = SaveSettings(stored, Session(current_path, duration, type,
                                                      current_theme))
       ELSE UNCHANGED <<anim_duration, anim_type, stored>>
    /\ out' = DidWith("animation_settings", "", FALSE, accepted, <<accepted>>)
    /\ UNCHANGED <<fs, current_path, history, history_index, clipboard_path,
                   full_entry_list, items, search_text, load_thread, threads, queue,
                   animation, current_theme, back_enabled, forward_enabled>>

\* ThemeEditorDialog: the dialog works on a copy of the theme, pick_color puts the
\* colours picked into the copy, get_theme returns the copy
EditedTheme(theme, picked) ==
    [k \in DOMAIN theme |-> IF k \in DOMAIN picked THEN picked[k] ELSE theme[k]]

\* mutant of OpenThemeEditor: an accepted theme is applied and not saved
OpenThemeEditorUnsaved(accepted, picked) ==
    /\ current_theme' = IF accepted THEN EditedTheme(current_theme, picked)
                        ELSE current_theme
    /\ out' = DidWith("theme_editor", "", FALSE, accepted, <<accepted>>)
    /\ UNCHANGED <<fs, current_path, history, history_index, clipboard_path,
                   full_entry_list, items, search_text, load_thread, threads, queue,
                   animation, anim_type, anim_duration, stored, back_enabled,
                   forward_enabled>>

\* open_theme_editor: the dialog is accepted after the colours `picked` were
\* chosen, or cancelled
OpenThemeEditor(accepted, picked) ==
    /\ IF accepted
       THEN LET new_theme == EditedTheme(current_theme, picked)
            IN  /\ current_theme' = new_theme
                /\ stored' = SaveSettings(stored, Session(current_path, anim_duration,
                                                          anim_type, new_theme))
       ELSE UNCHANGED <<current_theme, stored>>
    /\ out' = DidWith("theme_editor", "", FALSE, accepted, <<accepted>>)
    /\ UNCHANGED <<fs, current_path, history, history_index, clipboard_path,
                   full_entry_list, items, search_text, load_thread, threads, queue,
                   animation, anim_type, anim_duration, back_enabled, forward_enabled>>

\* the colours picked in one dialog: for each role of a subset of PickKeys
Picks == UNION {[ks -> PickColours] : ks \in SUBSET PickKeys}

Dialogs ==
    \/ \E accepted \in BOOLEAN, duration \in Durations, type \in AnimTypes :
          OpenAnimationSettings(accepted, duration, type)
    \/ \E accepted \in BOOLEAN, picked \in Picks : OpenThemeEditor(accepted, picked)

(***************************************************************************)
(* Specifications                                                          *)
(***************************************************************************)
Background ==
    \/ \E id \in 1..Len(threads) : WorkerRun(id)
    \/ OnLoadFinished
    \/ ThreadDeleted
    \/ AfterAnimOut
    \/ AnimInDone

\* back, forward and the activation of a row
Navigation ==
    \/ \E i \in 1..Len(items) : ItemActivated(i)
    \/ GoBack
    \/ GoForward

\* the current row of delete_item and rename_item (0: none) with the answer
\* given to the dialog. An answer of `acts` lets the handler go on, and is given
\* on every row; an answer of `idle` ends it whatever the row, and is given on
\* the first row
Answers(acts, idle) ==
    {[i |-> 0, a |-> CHOOSE g \in acts : TRUE]}
        \cup {[i |-> i, a |-> g] : i \in 1..Len(items), g \in acts}
        \cup {[i |-> 1, a |-> g] : g \in {h \in idle : Len(items) > 0}}

\* the texts with which QInputDialog lets a handler go on
Named == {t \in Typed : t.ok /\ Strip(t.name) # <<>>}

\* the context menu, drag and drop, the search bar
Operations ==
    \/ \E t \in Typed : CreateFolder(t.name, t.ok)
    \/ \E t \in Typed : CreateFile(t.name, t.ok)
    \/ \E c \in Answers({TRUE}, {FALSE}) : DeleteItem(c.i, c.a)
    \/ \E c \in Answers(Named, Typed \ Named) : RenameItem(c.i, c.a.name, c.a.ok)
    \/ \E i \in 0..Len(items) : CopyItem(i)
    \/ PasteItem
    \/ \E urls \in Drags, t \in 0..Len(items) : DropEvent(urls, t)
    \/ \E text \in SearchTexts : SearchItems(text)

Next ==
    \/ Background
    \/ Within(MaxLoads) /\ Navigation
    \/ Within(MaxLoads) /\ Operations

Spec == Init /\ [][Next]_vars

\* a session of navigation alone
NextNav ==
    \/ Background
    \/ Within(MaxNavLoads) /\ Navigation

SpecNav == InitNav /\ [][NextNav]_vars

\* the startup scan of any of the directories ScanFSs, up to its delivery
\* shorter sessions of navigation in which a started scan thread is scheduled in
\* the end: QThread.start() emits started in the new thread, which calls
\* Worker.run there
NextLoads ==
    \/ Background
    \/ Within(MaxFairLoads) /\ Navigation

SpecLoadsFair ==
    InitNav /\ [][NextLoads]_vars /\ WF_vars(\E id \in 1..Len(threads) : WorkerRun(id))

NextScan ==
    \/ \E id \in 1..Len(threads) : WorkerRun(id)
    \/ OnLoadFinished
    \/ ThreadDeleted

SpecScan == InitScan /\ [][NextScan]_vars

\* a session of navigating, copying and pasting; no animation runs
NextPaste ==
    \/ \E id \in 1..Len(threads) : WorkerRun(id)
    \/ OnLoadFinished
    \/ ThreadDeleted
    \/ Within(MaxPasteLoads) /\ Navigation
    \/ Within(MaxPasteLoads) /\ \E i \in 0..Len(items) : CopyItem(i)
    \/ Within(MaxPasteLoads) /\ PasteItem

SpecPaste == InitPaste /\ [][NextPaste]_vars

\* the startup scan and a session of searching
\* copying, pasting and deleting in the directories PasteFSs
NextClip ==
    \/ \E id \in 1..Len(threads) : WorkerRun(id)
    \/ OnLoadFinished
    \/ ThreadDeleted
    \/ Within(MaxPasteLoads) /\ \E i \in 0..Len(items) : CopyItemNoted(i)
    \/ Within(MaxPasteLoads) /\ PasteItem
    \/ Within(MaxPasteLoads) /\ \E c \in Answers({TRUE}, {FALSE}) : DeleteItem(c.i, c.a)

SpecClip == InitPaste /\ [][NextClip]_vars

\* navigation, the file operations of the context menu and drag and drop
NextOps ==
    \/ \E id \in 1..Len(threads) : WorkerRun(id)
    \/ OnLoadFinished
    \/ ThreadDeleted
    \/ Within(MaxOpsLoads) /\ Navigation
    \/ Within(MaxOpsLoads) /\ \E t \in Typed : CreateFolder(t.name, t.ok)
    \/ Within(MaxOpsLoads) /\ \E t \in Typed : CreateFile(t.name, t.ok)
    \/ Within(MaxOpsLoads) /\ \E c \in Answers({TRUE}, {FALSE}) : DeleteItem(c.i, c.a)
    \/ Within(MaxOpsLoads) /\
          \E c \in Answers(Named, Typed \ Named) : RenameItem(c.i, c.a.name, c.a.ok)
    \/ Within(MaxOpsLoads) /\ \E i \in 0..Len(items) : CopyItem(i)
    \/ Within(MaxOpsLoads) /\ PasteItem
    \/ Within(MaxOpsLoads) /\ \E urls \in Drags, t \in 0..Len(items) : DropEvent(urls, t)

SpecOps == InitOps /\ [][NextOps]_vars

NextSearch ==
    \/ \E id \in 1..Len(threads) : WorkerRun(id)
    \/ OnLoadFinished
    \/ ThreadDeleted
    \/ \E text \in Queries : SearchItems(text)

SpecSearch == InitSearch /\ [][NextSearch]_vars

\* a session of navigating and dropping, from this program and from others
\* starts with every settings file, navigation and the settings dialogs
NextSettings ==
    \/ Background
    \/ Within(MaxSettingsLoads) /\ Navigation
    \/ Dialogs

SpecSettings == InitSettings /\ [][NextSettings]_vars

NextDrop ==
    \/ \E id \in 1..Len(threads) : WorkerRun(id)
    \/ OnLoadFinishedNoted
    \/ ThreadDeleted
    \/ AfterAnimOut
    \/ AnimInDone
    \/ Within(MaxDropLoads) /\ \E i \in 1..Len(items) : ItemActivated(i)
    \/ Within(MaxDropLoads) /\ GoBack
    \/ Within(MaxDropLoads) /\
          \E urls \in Drags \cup {DragAll} \cup ForeignDrags, t \in 0..Len(items) :
              DropEventNoted(urls, t)

SpecDrop == Init /\ [][NextDrop]_vars

(***************************************************************************)
(* Properties                                                              *)
(***************************************************************************)
\* the paths of the load_path calls so far, in order
LoadedPaths == [i \in 1..Len(threads) |-> threads[i].path]

C2_PushTruncates ==
    [][(out'.op = "item_activated" /\ out'.loaded) =>
          /\ history' = SubSeq(history, 1, history_index + 1) \o <<current_path'>>
          /\ \E i \in 1..Len(items) : items[i].is_folder /\ items[i].path = current_path'
          /\ history_index' = history_index + 1
          /\ history_index' = Len(history') - 1
          /\ history'[Len(history')] = current_path']_vars

\* push b, push c, back, back, push D from the home directory: history [Home, D],
\* cursor 1
C2_Witness ==
    /\ LoadedPaths = <<Home, <<nb>>, <<nb, nc>>, <<nb>>, Home, <<nD>>>>
    /\ out.op = "item_activated"
    /\ history = <<Home, <<nD>>>>
    /\ history_index = 1

\* C3: go_back with the cursor at 0 and go_forward with the cursor at the last
\* index change neither history, cursor nor current_path, start no scan and do not
\* write the settings.
C3_EdgeNoOp ==
    [][((out'.op = "go_back" /\ history_index = 0)
            \/ (out'.op = "go_forward" /\ history_index = Len(history) - 1)) =>
          /\ UNCHANGED <<history, history_index, current_path, threads, load_thread,
                         queue, stored>>
          /\ ~out'.loaded
          /\ ~out'.saved]_vars

\* back was pressed at cursor 0 with an entry to go forward to
C3_Witness ==
    /\ out.op = "go_back" /\ ~out.loaded
    /\ history_index = 0 /\ Len(history) = 2

\* C4: go_back with cursor > 0 moves the cursor down by one, go_forward with
\* cursor < len(history)-1 up by one; the path at the new cursor is loaded and
\* the history keeps its entries.
C4_StepByOne ==
    [][/\ (out'.op = "go_back" /\ history_index > 0) =>
              /\ history_index' = history_index - 1
              /\ history' = history
              /\ current_path' = history[history_index]
              /\ Len(threads') = Len(threads) + 1
              /\ threads'[Len(threads')].path = history[history_index]
       /\ (out'.op = "go_forward" /\ history_index < Len(history) - 1) =>
              /\ history_index' = history_index + 1
              /\ history' = history
              /\ current_path' = history[history_index + 2]
              /\ Len(threads') = Len(threads) + 1
              /\ threads'[Len(threads')].path = history[history_index + 2]]_vars

\* forward has returned to the last of three entries
C4_Witness ==
    /\ out.op = "go_forward" /\ out.loaded
    /\ history = <<Home, <<nb>>, <<nb, nc>>>>
    /\ history_index = 2

\* nothing is pending: every scan has run, every result was delivered and no
\* animation runs
Quiescent ==
    /\ queue = <<>>
    /\ \A id \in 1..Len(threads) : threads[id].state # "running"
    /\ animation.phase = "idle"

\* once nothing is pending, the rows (with an empty search text) are those of the
\* scan of the latest load_path call
QuiescentShowsLatest ==
    Quiescent /\ search_text = <<>> => items = Rebuild(threads[Len(threads)].result)

\* C5: the result of a scan is installed only while its load_path call is the
\* latest one, and once nothing is pending the rows (with an empty search text)
\* are those of the scan of the latest load_path call.
C5_NeverStale ==
    /\ [][/\ out'.op = "load_finished" => Head(queue).id = Len(threads)
          /\ out'.op = "after_out" => animation.id = Len(threads)]_vars
    /\ []QuiescentShowsLatest

\* C6: only the thread of the latest load_path call can be running: every earlier
\* one was stopped and waited for before the next was started.
C6_OneScanInFlight ==
    \A id \in 1..(Len(threads) - 1) : ~IsRunning(threads[id])

\* load_path has torn down the first thread, whose result is still queued, and
\* started the second
C6_Witness ==
    /\ Len(threads) = 2
    /\ threads[1].state = "deleted"
    /\ threads[2].state = "running"
    /\ Len(queue) = 1 /\ queue[1].id = 1
    /\ out.loaded

\* the names of the entries of a result, in order
Names(entries) == [i \in 1..Len(entries) |-> entries[i].name]

\* the results of scans that listed their directory, queued or delivered
Listed == {queue[i] : i \in {j \in 1..Len(queue) : ~queue[j].failed}}

\* C7: a successful scan returns every folder before every file, the folders in
\* the order of their lower-cased names and so the files, and is_folder is true
\* exactly on the entries that are folders.
C7_FoldersFirstSorted ==
    \A ev \in Listed :
        LET E == ev.entries
            p == threads[ev.id].path
        IN  /\ \A i, j \in 1..Len(E) : (i < j /\ E[j].is_folder) => E[i].is_folder
            /\ \A i, j \in 1..Len(E) :
                  (i < j /\ E[i].is_folder = E[j].is_folder) =>
                      ~StrLess(Lower(E[j].name), Lower(E[i].name))
            /\ \A i \in 1..Len(E) :
                  /\ E[i].full_path = Join(p, E[i].name)
                  /\ E[i].is_folder <=> (fs[E[i].full_path].kind = "dir")
            /\ {E[i].name : i \in {j \in 1..Len(E) : E[j].is_folder}}
                  = {n \in Children(fs, p) : fs[Join(p, n)].kind = "dir"}

\* the folders a and B come before the file b: sorted as they are, B would come
\* first
C7_Witness ==
    \E ev \in Listed :
        /\ Names(ev.entries) = <<<<97>>, <<66>>, nb>>
        /\ ev.entries[2].is_folder /\ ~ev.entries[3].is_folder

\* C8: a scan whose listing fails completes with the empty list: no message is
\* shown, and full_entry_list and the rows become empty as they do for an empty
\* directory (the rows at once when the reload is not animated, else through the
\* animation that holds the empty list).
C8_FailedScanIsEmpty ==
    [][(out'.op = "load_finished" /\ Head(queue).failed) =>
          /\ Head(queue).entries = <<>>
          /\ full_entry_list' = <<>>
          /\ out'.msg = ""
          /\ (~Head(queue).animate \/ anim_type = "None") =>
                 (items' = <<>> /\ animation' = animation)
          /\ (Head(queue).animate /\ anim_type \in {"Fade", "Slide"}) =>
                 (animation'.phase = "out" /\ animation'.entries = <<>>)]_vars

\* the folder D, which cannot be listed, was opened from the rows of the home
\* directory: both lists are empty now
C8_Witness ==
    /\ out.op = "load_finished"
    /\ current_path = <<nD>>
    /\ threads[Len(threads)].state # "running" /\ queue = <<>>
    /\ full_entry_list = <<>> /\ items = <<>>
    /\ ~(fs[<<nD>>].ok)

\* C9: a successful scan returns every file of the directory, those whose size
\* cannot be read too: a file whose stat fails has an entry with an empty
\* size_text, the others have their size formatted, and no entry is lost.
C9_AllFilesListed ==
    \A ev \in Listed :
        LET E == ev.entries
            p == threads[ev.id].path
            files == {n \in Children(fs, p) : fs[Join(p, n)].kind = "file"}
            folders == {n \in Children(fs, p) : fs[Join(p, n)].kind = "dir"}
        IN  /\ {E[i].name : i \in {j \in 1..Len(E) : ~E[j].is_folder}} = files
            /\ Len(E) = Cardinality(files) + Cardinality(folders)
            /\ \A i \in 1..Len(E) :
                  ~E[i].is_folder =>
                      (E[i].size_text = <<>> <=> fs[E[i].full_path].stat # "ok")

\* C10: paste_item leaves every existing path as it is; a paste that succeeds
\* creates the source's base name in current_path when that name is unused, else
\* "<base> - Copy<N><ext>" for the smallest N >= 1 whose name is unused, found
\* within as many probes as the filesystem holds paths.
C10_PasteNeverOverwrites ==
    [][(out'.op = "paste_item") =>
          LET src == clipboard_path.path
              dest == Join(current_path, Basename(src))
              se == Splitext(Basename(src))
              Numbered(N) ==
                  Join(current_path, se.base \o <<32, 45, 32, 67, 111, 112, 121>>
                                         \o Digits(N) \o se.ext)
          IN  /\ \A q \in DOMAIN fs : q \in DOMAIN fs' /\ fs'[q] = fs[q]
              /\ out'.loaded =>
                    /\ dest \notin DOMAIN fs => dest \in DOMAIN fs'
                    /\ dest \in DOMAIN fs =>
                          \E N \in 1..Cardinality(DOMAIN fs) :
                              /\ Numbered(N) \in DOMAIN fs' \ DOMAIN fs
                              /\ \A M \in 1..(N - 1) : Numbered(M) \in DOMAIN fs
                    /\ \A q \in DOMAIN fs' \ DOMAIN fs :
                          \/ IsPrefix(dest, q)
                          \/ \E N \in 1..Cardinality(DOMAIN fs) : IsPrefix(Numbered(N), q)]_vars

\* n.t was pasted twice beside itself: "n - Copy1.t" and "n - Copy2.t" exist
C10_Witness ==
    /\ out.op = "paste_item" /\ out.loaded
    /\ Len(threads) = 3 /\ history = <<Home>>
    /\ clipboard_path = SomePath(<<nNote>>)
    /\ <<<<110, 32, 45, 32, 67, 111, 112, 121, 49, 46, 116>>>> \in DOMAIN fs
    /\ <<<<110, 32, 45, 32, 67, 111, 112, 121, 50, 46, 116>>>> \in DOMAIN fs

\* the sources of a noted drop that are where the drop would put them
StaysPut(urls, target) ==
    {i \in 1..Len(urls) :
        Normpath(<<>>, urls[i]) = Normpath(<<>>, Append(target, urls[i][Len(urls[i])]))}

\* C11: a dropped source whose destination (the target folder joined with its
\* base name) is the source itself is skipped: when that is so of every dragged
\* path, the filesystem is unchanged and no message is shown, and a skipped source
\* is never moved, also when the drop lands on a file row of its own folder.
C11_DropOnOwnFolder ==
    [][(out'.op = "drop" /\ out'.arg # <<>>) =>
          LET urls == out'.arg[1]
              put == StaysPut(urls, out'.arg[2])
          IN  /\ put = DOMAIN urls => (fs' = fs /\ out'.msg = "")
              /\ \A i \in put :
                    LET src == Normpath(<<>>, urls[i])
                    IN  src \in DOMAIN fs => (src \in DOMAIN fs' /\ fs'[src] = fs[src])
              /\ out'.loaded]_vars

\* n.t, written as ./n.t by another program, was dropped on n.t's own row in the
\* home directory
C11_Witness ==
    /\ out.op = "drop" /\ out.msg = ""
    /\ out.arg = <<<<<<<<46>>, nNote>>>>, Home, 2>>
    /\ items[2].path = <<nNote>> /\ ~items[2].is_folder
    /\ current_path = Home
    /\ fs = MainFS

\* name holds text, letters compared without their case
HoldsText(name, text) ==
    \E i \in 0..(Len(name) - Len(text)) :
        \A k \in 1..Len(text) : LowerChar(name[i + k]) = LowerChar(text[k])

\* the rows are those of the entries of full_entry_list whose name holds text, in
\* the order of full_entry_list and with their is_folder flags
RowsAreMatchesOf(rows, text) ==
    LET kept == SelectSeq(full_entry_list, LAMBDA e : HoldsText(e.name, text))
    IN  /\ Len(rows) = Len(kept)
        /\ \A k \in 1..Len(kept) :
              /\ rows[k].path = kept[k].full_path
              /\ rows[k].is_folder = kept[k].is_folder

\* C12 as stated: search_items(text) makes the visible list exactly the entries
\* of full_entry_list whose names contain the text case-insensitively, in their
\* order and with their is_folder flags; an empty text shows full_entry_list.
C12_SearchShowsMatches ==
    [][(out'.op = "search_items") => RowsAreMatchesOf(items', search_text')]_vars

\* C12 as amended: the text is first stripped of the white space at its ends; the
\* visible list is exactly the entries whose names contain the stripped text
\* case-insensitively, in their order and with their is_folder flags, and a text
\* that is empty or white space only shows full_entry_list.
C12_SearchShowsStrippedMatches ==
    [][(out'.op = "search_items") =>
          /\ RowsAreMatchesOf(items', Strip(search_text'))
          /\ Strip(search_text') = <<>> =>
                (/\ Len(items') = Len(full_entry_list)
                 /\ \A k \in 1..Len(items') : items'[k].path = full_entry_list[k].full_path)]_vars

\* " b" was typed over the folder a and the files B and b: the rows are B and b
C12_Witness ==
    /\ out.op = "search_items" /\ search_text = <<32, 98>>
    /\ Names(full_entry_list) = <<<<97>>, <<66>>, nb>>
    /\ Len(items) = 2 /\ items[1].path = <<<<66>>>> /\ items[2].path = <<nb>>

\* C13: search_items dispatches no scan and leaves full_entry_list, current_path,
\* history, the cursor and the persisted settings as they are: only the visible
\* list (and the text of the search bar) changes.
C13_SearchOnlyFilters ==
    [][(out'.op = "search_items") =>
          /\ UNCHANGED <<threads, load_thread, queue, full_entry_list, current_path,
                         history, history_index, stored, fs, clipboard_path,
                         animation, anim_type, anim_duration, current_theme,
                         back_enabled, forward_enabled>>
          /\ ~out'.loaded /\ ~out'.saved]_vars

\* "z" was typed over a list of three entries after its scan was delivered: no
\* row is left, and no scan is running or queued
C13_Witness ==
    /\ out.op = "search_items" /\ search_text = <<122>>
    /\ Len(full_entry_list) = 3 /\ items = <<>>
    /\ Len(threads) = 1 /\ threads[1].state # "running" /\ queue = <<>>

\* C14: an animated reload with kind Fade or Slide starts phase 1 and leaves the rows
\* alone; the rows are replaced by the reload's entries in the step that ends phase 1,
\* which is the step that starts phase 2, and phase 2 starts in no other way; while
\* phase 1 runs the rows change only by that step or by the completion of a reload
\* that is not animated; with kind None the rows are replaced when the scan completes
\* and no animation starts
C14_AnimatedReloadInOrder ==
    [][/\ (out'.op = "load_finished" /\ Head(queue).animate /\ anim_type \in {"Fade", "Slide"})
            => /\ items' = items
               /\ animation'.phase = "out"
               /\ animation'.kind = anim_type
               /\ animation'.entries = Head(queue).entries
       /\ (out'.op = "load_finished" /\ Head(queue).animate /\ anim_type = "None")
            => /\ items' = Rebuild(Head(queue).entries)
               /\ animation' = animation
       /\ (animation.phase = "out" /\ animation' # animation /\ out'.op # "load_finished")
            => /\ out'.op = "after_out"
               /\ items' = Rebuild(animation.entries)
               /\ animation'.phase = "in"
               /\ animation'.kind = animation.kind
       /\ (animation'.phase = "in" /\ animation' # animation)
            => /\ animation.phase = "out"
               /\ out'.op = "after_out"
       /\ (animation'.phase = "out" /\ animation' # animation)
            => out'.op = "load_finished"
       /\ (animation.phase = "out" /\ items' # items)
            => \/ out'.op = "after_out"
               \/ /\ out'.op = "load_finished"
                  /\ ~Head(queue).animate \/ anim_type = "None"]_vars

\* phase 1 of a Slide reload of a folder with rows has ended: the rows were replaced and
\* phase 2 runs
C14_Witness ==
    /\ out.op = "after_out"
    /\ animation.phase = "in"
    /\ animation.kind = "Slide"
    /\ items # <<>>
    /\ items = Rebuild(full_entry_list)

Persisted ==
    /\ stored.found
    /\ stored.readable
    /\ DOMAIN stored.data = {"last_path", "anim_duration", "anim_type", "theme"}
    /\ stored.data.last_path = current_path
    /\ stored.data.anim_duration = anim_duration
    /\ stored.data.anim_type = anim_type
    /\ stored.data.theme = current_theme

\* C16: when the settings file can be written, after every handler the persisted
\* last_path, anim_duration, anim_type and theme equal current_path, anim_duration,
\* anim_type and current_theme; a navigation and an accepted dialog rewrite the file
\* with them, a cancelled dialog changes neither the settings in memory nor the file
C16_SettingsPersisted ==
    /\ [](stored.writable => Persisted)
    /\ [][/\ (out'.op \in {"animation_settings", "theme_editor"} /\ out'.arg = <<FALSE>>)
               => UNCHANGED <<current_path, anim_duration, anim_type, current_theme,
                              stored>>
          /\ (out'.op \in {"animation_settings", "theme_editor"} /\ out'.arg = <<TRUE>>
                 /\ stored.writable)
               => Persisted'
          /\ (current_path' # current_path /\ stored.writable) => Persisted']_vars

\* a theme with a picked colour was accepted after a navigation to folder b and a
\* change of the animation to 800 ms and None: the file holds all of them
C16_Witness ==
    /\ out.op = "theme_editor"
    /\ out.arg = <<TRUE>>
    /\ current_path = <<nb>>
    /\ anim_duration = 800
    /\ anim_type = "None"
    /\ current_theme.background = "#000000"
    /\ current_theme.text = "#202020"
    /\ stored.writable
    /\ Persisted

\* C17: at startup a persisted theme that lacks any of the five colour roles is
\* rejected as a whole for the default theme, a persisted theme with all five is
\* used unchanged, and an absent or unreadable settings file gives the default of
\* every setting with no message
C17_StartupSettings ==
    (out.op = "init" /\ out.arg # <<>>) =>
        LET file == out.arg[1]
            roles == {"background", "text", "selected_bg", "hover_bg", "tooltip_bg"}
            dark == [background |-> "#1e1e1e", text |-> "#dddddd",
                     selected_bg |-> "#007acc", hover_bg |-> "#094771",
                     tooltip_bg |-> "#333333"]
            has_theme == file.found /\ file.readable /\ "theme" \in DOMAIN file.data
        IN  /\ (has_theme /\ ~(roles \subseteq DOMAIN file.data.theme))
                  => current_theme = dark
            /\ (has_theme /\ roles \subseteq DOMAIN file.data.theme)
                  => current_theme = file.data.theme
            /\ (~file.found \/ ~file.readable)
                  => /\ current_path = Home
                     /\ anim_duration = 200
                     /\ anim_type = "Fade"
                     /\ current_theme = dark
                     /\ out.msg = ""

\* a start with a settings file whose theme lacks hover_bg only: the other settings
\* of the file are taken, the theme is the default theme
C17_Witness ==
    /\ out.op = "init"
    /\ out.arg # <<>>
    /\ out.arg[1].found
    /\ out.arg[1].readable
    /\ "theme" \in DOMAIN out.arg[1].data
    /\ DOMAIN out.arg[1].data.theme = {"background", "text", "selected_bg", "tooltip_bg"}
    /\ anim_duration = 400
    /\ anim_type = "Slide"
    /\ current_theme.background = "#1e1e1e"
    /\ "hover_bg" \in DOMAIN current_theme

\* the messages shown when the OS call of a file operation raised
FailureMessages ==
    {"Could not create folder", "Could not create file", "Could not delete",
     "Could not rename", "Could not paste", "Could not move"}

\* C18: a handler whose OS call failed shows the message, leaves history, cursor and
\* current_path as they were, and dispatches a re-scan of current_path
C18_FailureStillRefreshes ==
    [][out'.msg \in FailureMessages =>
          /\ history' = history
          /\ history_index' = history_index
          /\ current_path' = current_path
          /\ Len(threads') = Len(threads) + 1
          /\ threads'[Len(threads')].path = current_path]_vars

\* the paths of the rows, and the paths the current directory holds
Shown == {items[i].path : i \in 1..Len(items)}
Present == {q \in DOMAIN fs : Len(q) = Len(current_path) + 1 /\ IsPrefix(current_path, q)}

\* C19: every handler that changes the directory tree dispatches a re-scan of
\* current_path, animated exactly when the handler is the drop; once the scans have
\* completed and nothing is pending, the rows are the items of the directory
C19_MutationsRescan ==
    /\ [][fs' # fs =>
             /\ Len(threads') = Len(threads) + 1
             /\ threads'[Len(threads')].path = current_path
             /\ threads'[Len(threads')].animate = (out'.op = "drop")]_vars
    /\ [](Quiescent /\ search_text = <<>> => Shown = Present)

\* C20: after every handler the back control is enabled exactly when the cursor is
\* above 0 and the forward control exactly when the cursor is below the last index
\* of the history
C20_NavButtonsFollowCursor ==
    /\ back_enabled <=> history_index > 0
    /\ forward_enabled <=> history_index < Len(history) - 1

\* go_back from the last of three entries: both controls are enabled
C20_Witness ==
    /\ out.op = "go_back"
    /\ Len(history) = 3
    /\ history_index = 1
    /\ back_enabled
    /\ forward_enabled

\* C21: copy_item with a current item puts the path of that item into the clipboard
\* slot whatever the slot held; no other handler changes the slot, paste_item
\* included; paste_item with an empty slot or with a source that is gone shows its
\* message, leaves the filesystem and the slot as they were and starts no scan
C21_ClipboardSlot ==
    [][/\ (out'.op = "copy_item" /\ out'.arg # <<>>)
            => clipboard_path' = [some |-> TRUE, path |-> out'.arg[1]]
       /\ clipboard_path' # clipboard_path
            => (out'.op = "copy_item" /\ out'.arg # <<>>)
       /\ (out'.op = "paste_item"
              /\ (~clipboard_path.some \/ clipboard_path.path \notin DOMAIN fs))
            => /\ out'.msg = "Nothing to paste or source no longer exists."
               /\ fs' = fs
               /\ clipboard_path' = clipboard_path
               /\ threads' = threads
               /\ queue' = queue]_vars

\* the file n.t was copied and then deleted, and paste_item was asked for: the
\* message is shown and the slot still holds the path of n.t
C21_Witness ==
    /\ out.op = "paste_item"
    /\ out.msg = "Nothing to paste or source no longer exists."
    /\ clipboard_path = [some |-> TRUE, path |-> <<nNote>>]
    /\ <<nNote>> \notin DOMAIN fs

FileOperations ==
    {"create_folder", "create_file", "delete_item", "rename_item", "copy_item",
     "paste_item", "drop"}

\* C23: a file operation, whether its OS call succeeds, fails or is not reached,
\* leaves the history, the cursor and the current path as they were, and a scan it
\* starts is a scan of the current path
C23_OperationsKeepHistory ==
    [][out'.op \in FileOperations =>
          /\ history' = history
          /\ history_index' = history_index
          /\ current_path' = current_path
          /\ Len(threads') \in {Len(threads), Len(threads) + 1}
          /\ Len(threads') = Len(threads) + 1
                => threads'[Len(threads')].path = current_path]_vars

\* the folder e was created in folder b, which had been navigated to from the home
\* directory: the history still ends with b at the cursor
C23_Witness ==
    /\ out.op = "create_folder"
    /\ out.loaded
    /\ <<nb, ne>> \in DOMAIN fs
    /\ history = <<Home, <<nb>>>>
    /\ history_index = 1
    /\ current_path = <<nb>>

\* the finished signals of scan id among the queued ones
Signals(q, id) == Cardinality({i \in 1..Len(q) : q[i].id = id})

\* C24: a scan that was started emits finished exactly once: in the step in which it
\* ends, one signal of it is queued, with the empty list when the listing failed and
\* the listing's result otherwise; before and after that step none is queued, and a
\* scan never starts again; when its signal is handled the thread is asked to quit;
\* and every started scan ends
C24_OneCompletionSignal ==
    /\ [][/\ \A id \in 1..Len(threads) :
              /\ (threads[id].state = "running" /\ threads'[id].state # "running")
                    => /\ queue' # <<>>
                       /\ queue'[Len(queue')].id = id
                       /\ Signals(queue', id) = 1
                       /\ queue'[Len(queue')].failed => queue'[Len(queue')].entries = <<>>
                       /\ \E r \in ScanResults(fs', threads[id].path) :
                             r.entries = queue'[Len(queue')].entries
              /\ (threads[id].state = "running" /\ threads'[id].state = "running")
                    => Signals(queue', id) = 0
              /\ threads[id].state # "running"
                    => /\ threads'[id].state # "running"
                       /\ Signals(queue', id) <= Signals(queue, id)
          /\ \A id \in (Len(threads) + 1)..Len(threads') :
                threads'[id].state = "running" /\ Signals(queue', id) = 0
          /\ out'.op = "load_finished"
                => threads'[Head(queue).id].state \in {"finished", "deleted"}]_vars
    /\ \A id \in 1..MaxFairLoads :
          (Len(threads) >= id /\ threads[id].state = "running")
              ~> (Len(threads) >= id /\ threads[id].state # "running")

\* the scan of folder D, which cannot be listed, was ended by the wait() of go_back:
\* its one signal, with the empty list, is queued behind nothing else of it
C24_Witness ==
    /\ out.op = "go_back"
    /\ Len(threads) = 3
    /\ threads[2].path = <<nD>>
    /\ threads[2].state = "deleted"
    /\ Signals(queue, 2) = 1
    /\ \E i \in 1..Len(queue) : queue[i].id = 2 /\ queue[i].failed /\ queue[i].entries = <<>>

=============================================================================
